---- MODULE Spec2Model ----
(***************************************************************************)
(* Photon-statistics processing of the time-multiplexed quantum walk       *)
(* (src/main.py): outcome enumeration, distribution operations, the walk   *)
(* circuit construction and the mode-mismatch computation.                 *)
(*                                                                         *)
(* Specifications: SpecEnum (generate_photon_outcomes), SpecConv           *)
(* (convolve_probabilities), SpecDist (normalizeProbDict, filterProbDict,  *)
(* traceOverHV) draw the arguments of one call and make it; SpecWalk steps *)
(* through computeWalkOutput and computeWalkOutputWithMM.                  *)
(*                                                                         *)
(* Weights are exact rationals <<num, den>> (den > 0, lowest terms); the   *)
(* pair <<0, 0>> stands for a floating-point NaN.  Dictionaries are        *)
(* functions whose domain is the set of keys.  A call that raises is a     *)
(* return record whose exc field names the exception.                      *)
(***************************************************************************)
EXTENDS Integers, Sequences, FiniteSets, TLC

\* ------------------------------------------------------------------ bounds
MaxChannels == 7     \* numChannels of the enumerator ranges over 0..MaxChannels
MaxPhotons  == 6     \* max_photons of the enumerator ranges over 0..MaxPhotons
MaxLen      == 3     \* outcome length of the input distributions of SpecDist
MaxConvLen  == 1     \* outcome length of the input distributions of SpecConv
MaxTotal    == 1     \* largest total photon number of an input outcome
MaxW        == 2     \* input weights are the multiples of 1/MaxW in [0, 1]
MaxKeys     == 2     \* largest number of outcomes in an input distribution
MaxSteps    == 4     \* nSteps of the walk ranges over -1..MaxSteps
MaxWalkSteps   == 0  \* walks of more steps are run with max_photons <= 0 only
MaxWalkPhotons == 1  \* max_photons of the walk ranges over -1..MaxWalkPhotons
MaxFock     == 1     \* largest weight (in units) the backend reports
MmDen       == 2     \* the mode overlap mm ranges over -1/MmDen .. (MmDen+1)/MmDen

\* ------------------------------------------------------------- arithmetic
Min(a, b) == IF a <= b THEN a ELSE b
Max(a, b) == IF a >= b THEN a ELSE b

RECURSIVE GCD(_, _)
GCD(a, b) == IF b = 0 THEN a ELSE GCD(b, a % b)

NaN == <<0, 0>>
IsNaN(x) == x[2] = 0
Reduce(n, d) == LET g == GCD(n, d) IN <<n \div g, d \div g>>
Rat(n) == <<n, 1>>
FAdd(x, y) == IF IsNaN(x) \/ IsNaN(y) THEN NaN
              ELSE Reduce(x[1] * y[2] + y[1] * x[2], x[2] * y[2])
FMul(x, y) == IF IsNaN(x) \/ IsNaN(y) THEN NaN
              ELSE Reduce(x[1] * y[1], x[2] * y[2])
\* x / y for y # 0
FDiv(x, y) == IF IsNaN(x) \/ IsNaN(y) THEN NaN
              ELSE Reduce(x[1] * y[2], x[2] * y[1])

Range(s) == {s[j] : j \in 1..Len(s)}

RECURSIVE SumSeq(_)
SumSeq(s) == IF s = <<>> THEN 0 ELSE Head(s) + SumSeq(Tail(s))

\* sum(p.values()), starting from the integer 0
RECURSIVE SumOver(_, _)
SumOver(p, keys) ==
    IF keys = {} THEN Rat(0)
    ELSE LET key == CHOOSE x \in keys : TRUE
         IN FAdd(p[key], SumOver(p, keys \ {key}))
SumValues(p) == SumOver(p, DOMAIN p)

\* ----------------------------------------------------------- dictionaries
EmptyDict == [key \in {} |-> NaN]
DictGet(d, key, default) == IF key \in DOMAIN d THEN d[key] ELSE default
DictPut(d, key, value) ==
    [x \in (DOMAIN d) \cup {key} |-> IF x = key THEN value ELSE d[x]]

Returned(v) == [exc |-> "none", val |-> v]
Raised(e)   == [exc |-> e, val |-> EmptyDict]

\* --------------------------------------------- generate_photon_outcomes
\* range(min(max_photons + 1, remaining_photons + 1)) is 0 .. BranchBound - 1
BranchBoundOffByOne(max_photons, remaining_photons) ==
    Min(max_photons + 1, remaining_photons)

BranchBound(max_photons, remaining_photons) ==
    Min(max_photons + 1, remaining_photons + 1)

RECURSIVE generate_outcomes_helper(_, _, _, _, _)
RECURSIVE generate_outcomes_loop(_, _, _, _, _, _)

\* The outcomes appended, in order, by one call of the helper.
generate_outcomes_helper(N, max_photons, current_outcome, remaining_photons, current_mode) ==
    IF current_mode = N
    THEN IF remaining_photons >= 0 THEN <<current_outcome>> ELSE <<>>
    ELSE generate_outcomes_loop(N, max_photons, current_outcome,
                                remaining_photons, current_mode, 0)

\* The for loop of the helper from photons_in_mode on.
generate_outcomes_loop(N, max_photons, current_outcome, remaining_photons, current_mode, photons_in_mode) ==
    IF photons_in_mode >= BranchBound(max_photons, remaining_photons)
    THEN <<>>
    ELSE generate_outcomes_helper(N, max_photons,
                                  Append(current_outcome, photons_in_mode),
                                  remaining_photons - photons_in_mode,
                                  current_mode + 1)
         \o generate_outcomes_loop(N, max_photons, current_outcome,
                                   remaining_photons, current_mode,
                                   photons_in_mode + 1)

generate_photon_outcomes(N, max_photons) ==
    generate_outcomes_helper(N, max_photons, <<>>, max_photons, 0)

\* ------------------------------------------------- convolve_probabilities
\* tuple(sum(x) for x in zip(outcome1, outcome2)): zip stops at the shorter
ZipSum(outcome1, outcome2) ==
    [i \in 1..Min(Len(outcome1), Len(outcome2)) |-> outcome1[i] + outcome2[i]]

WithinMaxStrict(convolved_outcome, max_photons) ==
    SumSeq(convolved_outcome) < max_photons

WithinMax(convolved_outcome, max_photons) ==
    SumSeq(convolved_outcome) <= max_photons

\* line 79: accumulate the product of the two weights under the summed label
Accumulate(convolved_prob, convolved_outcome, prob1_value, prob2_value) ==
    DictPut(convolved_prob, convolved_outcome,
            FAdd(DictGet(convolved_prob, convolved_outcome, Rat(0)),
                 FMul(prob1_value, prob2_value)))

\* the inner loop (line 69), over the items of prob2 still to visit
RECURSIVE ConvolveInner(_, _, _, _, _, _)
ConvolveInner(outcome1, items2, prob1, prob2, max_photons, convolved_prob) ==
    IF items2 = {} THEN convolved_prob
    ELSE LET outcome2 == CHOOSE x \in items2 : TRUE
         IN ConvolveInner(outcome1, items2 \ {outcome2}, prob1, prob2, max_photons,
                IF WithinMax(ZipSum(outcome1, outcome2), max_photons)
                THEN Accumulate(convolved_prob, ZipSum(outcome1, outcome2),
                                prob1[outcome1], prob2[outcome2])
                ELSE convolved_prob)

\* the outer loop (line 68), over the items of prob1 still to visit
RECURSIVE ConvolveOuter(_, _, _, _, _)
ConvolveOuter(items1, prob1, prob2, max_photons, convolved_prob) ==
    IF items1 = {} THEN convolved_prob
    ELSE LET outcome1 == CHOOSE x \in items1 : TRUE
         IN ConvolveOuter(items1 \ {outcome1}, prob1, prob2, max_photons,
                ConvolveInner(outcome1, DOMAIN prob2, prob1, prob2, max_photons,
                              convolved_prob))

convolve_probabilities(prob1, prob2, max_photons) ==
    ConvolveOuter(DOMAIN prob1, prob1, prob2, max_photons, EmptyDict)

\* ------------------------------------------------------ normalizeProbDict
\* value / sum(p.values()) for each item; dtype is the weights' numeric type:
\* a Python float raises on division by zero, a numpy float64 yields nan.
Divide(value, total, dtype) ==
    IF IsNaN(value) \/ IsNaN(total) THEN Returned(NaN)
    ELSE IF total[1] # 0 THEN Returned(FDiv(value, total))
    ELSE IF dtype = "float" THEN Raised("ZeroDivisionError")
    ELSE Returned(NaN)

normalizeProbDict(p, dtype) ==
    LET total == SumValues(p)
    IN IF \E key \in DOMAIN p : Divide(p[key], total, dtype).exc # "none"
       THEN Raised("ZeroDivisionError")
       ELSE Returned([key \in DOMAIN p |-> Divide(p[key], total, dtype).val])

\* --------------------------------------------------------- filterProbDict
filterProbDict(pDict, num_photons, dtype) ==
    LET filtered_probabilities ==
            [key \in {x \in DOMAIN pDict : SumSeq(x) = num_photons} |-> pDict[key]]
    IN normalizeProbDict(filtered_probabilities, dtype)

\* ------------------------------------------------------------ traceOverHV
\* key[::2] and key[1::2] (0-based) are the odd and even 1-based positions
EvenSliceShort(key) == [i \in 1..(Len(key) \div 2) |-> key[2 * i - 1]]

EvenSlice(key) == [i \in 1..((Len(key) + 1) \div 2) |-> key[2 * i - 1]]
OddSlice(key)  == [i \in 1..(Len(key) \div 2) |-> key[2 * i]]

RECURSIVE TraceLoop(_, _, _, _)
TraceLoop(keys, pDict, slice, acc) ==
    IF keys = {} THEN acc
    ELSE LET key == CHOOSE x \in keys : TRUE
             sub == IF slice = "H" THEN EvenSlice(key) ELSE OddSlice(key)
         IN TraceLoop(keys \ {key}, pDict, slice,
                      DictPut(acc, sub, FAdd(DictGet(acc, sub, Rat(0)), pDict[key])))

\* (H, V) as a pair of return records; an exception of either aborts the call
traceOverHV(pDict, dtype) ==
    LET H_probabilities == TraceLoop(DOMAIN pDict, pDict, "H", EmptyDict)
        V_probabilities == TraceLoop(DOMAIN pDict, pDict, "V", EmptyDict)
        H == normalizeProbDict(H_probabilities, dtype)
        V == normalizeProbDict(V_probabilities, dtype)
    IN IF H.exc # "none" THEN H
       ELSE IF V.exc # "none" THEN V
       ELSE Returned(<<H.val, V.val>>)

\* ------------------------------------------------------------------ state
VARIABLES
    pending,    \* the call being made: its function name and arguments
    ret,        \* its return record (exc = "pending" until it returns)
    dtype,      \* numeric type of the weights: "float" or "float64"
    pc,         \* position inside computeWalkOutput / computeWalkOutputWithMM
    branch,     \* which computeWalkOutput invocation runs: "ideal", "para", "perp"
    stepNumber, \* loop variable of the walk loop
    k,          \* loop variable of the inner loops
    prog,       \* operations appended to the program so far
    engRuns,    \* the input descriptions of the eng.run calls made, in order
    state,      \* results.state of the last eng.run
    pn_para,    \* first walk of the mode-mismatch computation
    pn_perp     \* second walk of the mode-mismatch computation

vars == <<pending, ret, dtype, pc, branch, stepNumber, k, prog, engRuns, state,
          pn_para, pn_perp>>

walkVars == <<pc, branch, stepNumber, k, prog, engRuns, state, pn_para, pn_perp>>

NoRet == [exc |-> "pending", val |-> EmptyDict]
NoState == [t \in {} |-> 0]

WalkIdle ==
    /\ pc = "idle" /\ branch = "none" /\ stepNumber = 0 /\ k = 0
    /\ prog = <<>> /\ engRuns = <<>> /\ state = NoState
    /\ pn_para = EmptyDict /\ pn_perp = EmptyDict

\* ----------------------------------------------------------------- inputs
\* tuples of the given length with total at most MaxTotal
Outcomes(len) == {t \in [1..len -> 0..MaxTotal] : SumSeq(t) <= MaxTotal}

RECURSIVE SubsetsUpTo(_, _)
SubsetsUpTo(S, n) ==
    IF n = 0 THEN {{}}
    ELSE LET prev == SubsetsUpTo(S, n - 1)
         IN prev \cup {s \cup {x} : s \in prev, x \in S}

\* distributions over outcomes of one length, at most MaxKeys of them, with
\* weights 0, 1/MaxW, .., 1
Dists(len) ==
    UNION {[K -> {Reduce(w, MaxW) : w \in 0..MaxW}] : K \in SubsetsUpTo(Outcomes(len), MaxKeys)}

\* the uniform distributions over at most MaxKeys outcomes of one length
EvenDists(len) ==
    {[key \in K |-> Reduce(1, Cardinality(K))] : K \in SubsetsUpTo(Outcomes(len), MaxKeys)}

DTypes == {"float", "float64"}

\* ----------------------------------------- calls of the helper functions
Call_generate_photon_outcomes ==
    /\ pending.fn = "generate_photon_outcomes" /\ ret = NoRet
    /\ ret' = Returned(generate_photon_outcomes(pending.N, pending.max_photons))
    /\ UNCHANGED <<pending, dtype, walkVars>>

Call_convolve_probabilities ==
    /\ pending.fn = "convolve_probabilities" /\ ret = NoRet
    /\ ret' = Returned(convolve_probabilities(pending.prob1, pending.prob2,
                                              pending.max_photons))
    /\ UNCHANGED <<pending, dtype, walkVars>>

Call_normalizeProbDict ==
    /\ pending.fn = "normalizeProbDict" /\ ret = NoRet
    /\ ret' = normalizeProbDict(pending.p, dtype)
    /\ UNCHANGED <<pending, dtype, walkVars>>

Call_filterProbDict ==
    /\ pending.fn = "filterProbDict" /\ ret = NoRet
    /\ ret' = filterProbDict(pending.pDict, pending.num_photons, dtype)
    /\ UNCHANGED <<pending, dtype, walkVars>>

Call_traceOverHV ==
    /\ pending.fn = "traceOverHV" /\ ret = NoRet
    /\ ret' = traceOverHV(pending.pDict, dtype)
    /\ UNCHANGED <<pending, dtype, walkVars>>

\* ---------------------------------------------------------------- SpecEnum
InitEnum ==
    /\ \E N \in 0..MaxChannels, max_photons \in 0..MaxPhotons :
          pending = [fn |-> "generate_photon_outcomes", N |-> N,
                     max_photons |-> max_photons]
    /\ ret = NoRet /\ dtype = "float" /\ WalkIdle

NextEnum == Call_generate_photon_outcomes

SpecEnum == InitEnum /\ [][NextEnum]_vars

\* ---------------------------------------------------------------- SpecConv
InitConv ==
    /\ \E len \in 0..MaxConvLen :
       \E prob1 \in Dists(len), prob2 \in EvenDists(len),
          max_photons \in 0..(MaxTotal + 1) :
          pending = [fn |-> "convolve_probabilities", prob1 |-> prob1,
                     prob2 |-> prob2, max_photons |-> max_photons]
    /\ ret = NoRet /\ dtype = "float" /\ WalkIdle

NextConv == Call_convolve_probabilities

SpecConv == InitConv /\ [][NextConv]_vars

\* ---------------------------------------------------------------- SpecDist
InitDist ==
    /\ \E len \in 0..MaxLen : \E p \in Dists(len) :
          \/ pending = [fn |-> "normalizeProbDict", p |-> p]
          \/ \E num_photons \in 0..(MaxTotal + 1) :
                pending = [fn |-> "filterProbDict", pDict |-> p,
                           num_photons |-> num_photons]
          \/ pending = [fn |-> "traceOverHV", pDict |-> p]
    /\ ret = NoRet /\ dtype \in DTypes /\ WalkIdle

NextDist ==
    \/ Call_normalizeProbDict
    \/ Call_filterProbDict
    \/ Call_traceOverHV

SpecDist == InitDist /\ [][NextDist]_vars

\* ------------------------------------------------------ computeWalkOutput
DefaultMaxPhotons == 2      \* max_photons=2 of convolve_probabilities

NModes(nSteps) == 2 * nSteps + 2

\* coherent intensity handed to computeWalkOutput, in units of alphaSq / MmDen
Intensity(br, mm) ==
    IF br = "para" THEN mm
    ELSE IF br = "perp" THEN MmDen - mm
    ELSE MmDen

EtaFockSwapped(br) == IF br = "perp" THEN "1" ELSE "0"

EtaFock(br) == IF br = "perp" THEN "0" ELSE "1"

\* np.sqrt of a negative intensity is nan
Alpha(intensity) == IF intensity < 0 THEN "nan" ELSE ToString(intensity)

Gate(op, p1, p2, modes) == [op |-> op, p1 |-> p1, p2 |-> p2, modes |-> modes]
BSgate(theta, phi, a, b) == Gate("BSgate", theta, phi, <<a, b>>)

InitOps(br, mm) ==
    << Gate("S2gate", "r", "0", <<0, 1>>),
       Gate("LossChannel", EtaFock(br), "", <<1>>),
       Gate("Coherent", Alpha(Intensity(br, mm)), "", <<2>>) >>

TimeShiftHerald(kk) == BSgate("pi/2", "gamma", 2 * kk, 2 * kk + 2)

TimeShift(kk) == BSgate("pi/2", "gamma", 2 * kk + 2, 2 * kk + 4)

OddStepOpsNoUndo(kk) ==
    << BSgate("-pi/4", "0", 2 * kk + 1, 2 * kk + 2),
       BSgate("-pi/4", "0", 2 * kk + 3, 2 * kk + 4),
       TimeShift(kk) >>

OddStepOps(kk) ==
    << BSgate("-pi/4", "0", 2 * kk + 1, 2 * kk + 2),
       BSgate("-pi/4", "0", 2 * kk + 3, 2 * kk + 4),
       TimeShift(kk),
       BSgate("pi/4", "0", 2 * kk + 1, 2 * kk + 2),
       BSgate("pi/4", "0", 2 * kk + 3, 2 * kk + 4) >>

EvenStepOps(kk) == << TimeShift(kk) >>

HwpOps(kk) == << BSgate("-pi/4", "0", 2 * kk + 1, 2 * kk + 2) >>

LossOps(i) == << Gate("ThermalLossChannel", "eta", "n_noise", <<i>>) >>

\* q[i] of a program of nModes + 1 registers; no index of the code is negative
IndexOk(nSteps, ops) ==
    \A j \in 1..Len(ops) : \A m \in 1..Len(ops[j].modes) :
        ops[j].modes[m] \in 0..NModes(nSteps)

\* the input description a program hands to the backend
InputSpec(program) == [etaFock |-> program[2].p1, alpha |-> program[3].p1]

\* state.fock_prob([1] + label): the backend is modelled to the granularity of
\* the label's total photon number, in integer units
fock_prob(st, label) == Rat(st[SumSeq(label)])

\* lines 230-242
QueryAll(st, nSteps, max_photons) ==
    [label \in Range(generate_photon_outcomes(NModes(nSteps), max_photons))
        |-> fock_prob(st, label)]

\* append ops to the program, or raise IndexError at a register out of range
Emit(ops, pcNext, kNext) ==
    IF IndexOk(pending.nSteps, ops)
    THEN /\ prog' = prog \o ops
         /\ pc' = pcNext
         /\ k' = kNext
         /\ ret' = ret
    ELSE /\ ret' = Raised("IndexError")
         /\ pc' = "done"
         /\ UNCHANGED <<prog, k>>

\* lines 160-178: allocate the program and append the input stage
Begin ==
    /\ pc = "begin"
    /\ prog = <<>>
    /\ Emit(InitOps(branch, pending.mm), "walk", -1)
    /\ stepNumber' = 0
    /\ UNCHANGED <<pending, dtype, branch, engRuns, state, pn_para, pn_perp>>

\* lines 186-198: one iteration of the inner loop of an odd step
OddIteration ==
    /\ pc = "walk" /\ stepNumber % 2 = 1 /\ k >= 0
    /\ Emit(OddStepOps(k), "walk", k - 1)
    /\ UNCHANGED <<pending, dtype, branch, stepNumber, engRuns, state, pn_para, pn_perp>>

\* lines 201-205: one iteration of the inner loop of an even step
EvenIteration ==
    /\ pc = "walk" /\ stepNumber % 2 = 0 /\ k >= 0
    /\ Emit(EvenStepOps(k), "walk", k - 1)
    /\ UNCHANGED <<pending, dtype, branch, stepNumber, engRuns, state, pn_para, pn_perp>>

\* line 183: the next stepNumber of range(nSteps + 1)
NextStep ==
    /\ pc = "walk" /\ k < 0 /\ stepNumber < pending.nSteps
    /\ stepNumber' = stepNumber + 1
    /\ k' = stepNumber
    /\ UNCHANGED <<pending, ret, dtype, pc, branch, prog, engRuns, state, pn_para, pn_perp>>

\* lines 183, 208: the walk loop is exhausted
EndWalk ==
    /\ pc = "walk" /\ k < 0 /\ stepNumber >= pending.nSteps
    /\ pc' = IF pending.nSteps % 2 = 1 THEN "hwp" ELSE "loss"
    /\ k' = 0
    /\ UNCHANGED <<pending, ret, dtype, branch, stepNumber, prog, engRuns, state,
                   pn_para, pn_perp>>

\* lines 210-212: one iteration of the closing basis change
HwpIteration ==
    /\ pc = "hwp"
    /\ Emit(HwpOps(k), IF k = pending.nSteps THEN "loss" ELSE "hwp",
            IF k = pending.nSteps THEN 0 ELSE k + 1)
    /\ UNCHANGED <<pending, dtype, branch, stepNumber, engRuns, state, pn_para, pn_perp>>

\* lines 216-218: one iteration of the loss loop (k is the loop variable i)
LossIteration ==
    /\ pc = "loss"
    /\ Emit(LossOps(k), IF k = NModes(pending.nSteps) THEN "run" ELSE "loss",
            IF k = NModes(pending.nSteps) THEN 0 ELSE k + 1)
    /\ UNCHANGED <<pending, dtype, branch, stepNumber, engRuns, state, pn_para, pn_perp>>

\* lines 222-223: the backend runs the program; its answers are its own
RunEngine ==
    /\ pc = "run"
    /\ engRuns' = Append(engRuns, InputSpec(prog))
    /\ \E st \in [0..Max(pending.max_photons, 0) -> 0..MaxFock] : state' = st
    /\ pc' = "query"
    /\ UNCHANGED <<pending, ret, dtype, branch, stepNumber, k, prog, pn_para, pn_perp>>

\* lines 222-223 with a nan amplitude: the backend may also refuse the program
RunEngineFails ==
    /\ pc = "run"
    /\ InputSpec(prog).alpha = "nan"
    /\ engRuns' = Append(engRuns, InputSpec(prog))
    /\ ret' = Raised("BackendError")
    /\ pc' = "done"
    /\ UNCHANGED <<pending, dtype, branch, stepNumber, k, prog, state, pn_para, pn_perp>>

\* lines 230-242 and the return to the caller (lines 287-288 for the two
\* walks of computeWalkOutputWithMM)
Query ==
    /\ pc = "query"
    /\ LET pn == QueryAll(state, pending.nSteps, pending.max_photons)
       IN \/ /\ branch = "ideal"
             /\ ret' = Returned(pn)
             /\ pc' = "done"
             /\ UNCHANGED <<branch, prog, pn_para, pn_perp>>
          \/ /\ branch = "para"
             /\ pn_para' = pn
             /\ branch' = "perp"
             /\ prog' = <<>>
             /\ pc' = "begin"
             /\ UNCHANGED <<ret, pn_perp>>
          \/ /\ branch = "perp"
             /\ pn_perp' = pn
             /\ pc' = "convolve"
             /\ UNCHANGED <<ret, branch, prog, pn_para>>
    /\ UNCHANGED <<pending, dtype, stepNumber, k, engRuns, state>>

\* lines 290-292: convolve_probabilities is called without max_photons
ConvolveAndNormalize ==
    /\ pc = "convolve"
    /\ LET pn_final == convolve_probabilities(pn_para, pn_perp, DefaultMaxPhotons)
       IN ret' = normalizeProbDict(pn_final, dtype)
    /\ pc' = "done"
    /\ UNCHANGED <<pending, dtype, branch, stepNumber, k, prog, engRuns, state,
                   pn_para, pn_perp>>

NextWalk ==
    \/ Begin
    \/ OddIteration
    \/ EvenIteration
    \/ NextStep
    \/ EndWalk
    \/ HwpIteration
    \/ LossIteration
    \/ RunEngine
    \/ RunEngineFails
    \/ Query
    \/ ConvolveAndNormalize

WalkCalls(stepsMax, photonsMax) ==
    {[fn |-> f, nSteps |-> n, mm |-> m, max_photons |-> p] :
        f \in {"computeWalkOutput", "computeWalkOutputWithMM"},
        n \in (-1)..stepsMax, m \in (-1)..(MmDen + 1), p \in (-1)..photonsMax}

InitCall(c) ==
    /\ pending = c
    /\ ret = NoRet
    /\ dtype \in DTypes
    /\ pc = "begin"
    /\ branch = IF c.fn = "computeWalkOutput" THEN "ideal" ELSE "para"
    /\ stepNumber = 0 /\ k = 0 /\ prog = <<>> /\ engRuns = <<>>
    /\ state = NoState /\ pn_para = EmptyDict /\ pn_perp = EmptyDict

\* ---------------------------------------------------------------- SpecWalk
\* The two entry points: walks of up to MaxSteps steps, and for those of up to
\* MaxWalkSteps steps every max_photons up to MaxWalkPhotons (longer walks are
\* run over the outcome spaces of max_photons <= 0).
InitWalk ==
    \E c \in WalkCalls(MaxSteps, MaxWalkPhotons) :
        /\ c.nSteps > MaxWalkSteps => c.max_photons <= 0
        \* computeWalkOutput has no mm: it is given alphaSq itself
        /\ c.fn = "computeWalkOutput" => c.mm = MmDen
        /\ InitCall(c)

SpecWalk == InitWalk /\ [][NextWalk]_vars

\* ================================================================ claims
Called(fn) == pending.fn = fn /\ ret # NoRet

\* tuples of length n of naturals with total at most budget
RECURSIVE Compositions(_, _)
Compositions(n, budget) ==
    IF n = 0 THEN {<<>>}
    ELSE UNION {{Append(t, v) : t \in Compositions(n - 1, budget - v)} : v \in 0..budget}

RECURSIVE Binomial(_, _)
Binomial(n, r) ==
    IF r = 0 \/ r = n THEN 1 ELSE Binomial(n - 1, r - 1) + Binomial(n - 1, r)

\* C1: generate_photon_outcomes(numChannels, maxPhotons) returns exactly the
\* tuples of length numChannels of non-negative integers with every entry and
\* the entry sum at most maxPhotons, each once, C(numChannels + maxPhotons,
\* numChannels) of them; for numChannels = 0 the single empty tuple.
Thm_C1 ==
    Called("generate_photon_outcomes") =>
        LET N == pending.N
            max_photons == pending.max_photons
            outcomes == ret.val
        IN /\ ret.exc = "none"
           /\ \A j \in 1..Len(outcomes) :
                 /\ Len(outcomes[j]) = N
                 /\ \A m \in 1..N : outcomes[j][m] \in 0..max_photons
                 /\ SumSeq(outcomes[j]) <= max_photons
           /\ Cardinality(Range(outcomes)) = Len(outcomes)
           /\ Range(outcomes) = Compositions(N, max_photons)
           /\ Len(outcomes) = Binomial(N + max_photons, N)
           /\ (N = 0 => outcomes = << <<>> >>)

\* the docstring's example: N = 3, max_photons = 2 gives ten labels
Wit_C1 ==
    /\ Called("generate_photon_outcomes")
    /\ pending.N = 3 /\ pending.max_photons = 2
    /\ Len(ret.val) = 10
    /\ <<0, 1, 1>> \in Range(ret.val)

ElementwiseSum(a, b) == [i \in 1..Len(a) |-> a[i] + b[i]]

RECURSIVE ProductMass(_, _, _)
ProductMass(prob1, prob2, pairs) ==
    IF pairs = {} THEN Rat(0)
    ELSE LET pr == CHOOSE x \in pairs : TRUE
         IN FAdd(FMul(prob1[pr[1]], prob2[pr[2]]),
                 ProductMass(prob1, prob2, pairs \ {pr}))

\* C2: convolve(d1, d2, maxPhotons) maps each outcome o of total at most
\* maxPhotons to the sum of d1[a] * d2[b] over the pairs with a + b = o, has no
\* outcome of a larger total, and is not renormalised: its total weight is the
\* product of the two masses less the discarded mass.
Thm_C2 ==
    Called("convolve_probabilities") =>
        LET prob1 == pending.prob1
            prob2 == pending.prob2
            all == (DOMAIN prob1) \X (DOMAIN prob2)
            kept == {pr \in all :
                        SumSeq(ElementwiseSum(pr[1], pr[2])) <= pending.max_photons}
            c == ret.val
        IN /\ ret.exc = "none"
           /\ DOMAIN c = {ElementwiseSum(pr[1], pr[2]) : pr \in kept}
           /\ \A o \in DOMAIN c :
                 /\ SumSeq(o) <= pending.max_photons
                 /\ c[o] = ProductMass(prob1, prob2,
                               {pr \in all : ElementwiseSum(pr[1], pr[2]) = o})
           /\ FAdd(SumValues(c), ProductMass(prob1, prob2, all \ kept))
                 = FMul(SumValues(prob1), SumValues(prob2))

HalfHalf == (<<1>> :> <<1, 2>>) @@ (<<0>> :> <<1, 2>>)

\* {(1,): 1/2, (0,): 1/2} convolved with itself at maxPhotons = 1
Wit_C2 ==
    /\ Called("convolve_probabilities")
    /\ pending.prob1 = HalfHalf /\ pending.prob2 = HalfHalf
    /\ pending.max_photons = 1
    /\ ret.val = (<<1>> :> <<1, 2>>) @@ (<<0>> :> <<1, 4>>)
    /\ SumValues(ret.val) = <<3, 4>>

\* C5: normalize applied to a distribution whose weights sum to zero (all
\* weights zero, or the empty map filterByTotal builds) ends in an error and
\* never returns a distribution.
CE_C5 ==
    /\ (Called("normalizeProbDict") /\ SumValues(pending.p) = Rat(0))
          => ret.exc # "none"
    /\ (/\ Called("filterProbDict")
        /\ \A key \in DOMAIN pending.pDict :
              (SumSeq(key) = pending.num_photons) => (pending.pDict[key] = Rat(0)))
          => ret.exc # "none"

\* every second element of key, from its first
RECURSIVE EveryOther(_)
EveryOther(key) ==
    IF Len(key) = 0 THEN <<>>
    ELSE IF Len(key) = 1 THEN key
    ELSE <<key[1]>> \o EveryOther(Tail(Tail(key)))

HProjection(key) == EveryOther(key)
VProjection(key) == IF Len(key) = 0 THEN <<>> ELSE EveryOther(Tail(key))

Marginal(d, onto, sub) ==
    SumOver(d, {key \in DOMAIN d :
                   (IF onto = "H" THEN HProjection(key) ELSE VProjection(key)) = sub})

C7Post ==
    Called("traceOverHV") /\ SumValues(pending.pDict)[1] # 0 =>
        LET d == pending.pDict
            T == SumValues(d)
        IN /\ ret.exc = "none"
           /\ LET H == ret.val[1]
                  V == ret.val[2]
              IN /\ DOMAIN H = {HProjection(key) : key \in DOMAIN d}
                 /\ DOMAIN V = {VProjection(key) : key \in DOMAIN d}
                 /\ \A key \in DOMAIN d :
                       /\ Len(HProjection(key)) = (Len(key) + 1) \div 2
                       /\ Len(VProjection(key)) = Len(key) \div 2
                 /\ \A h \in DOMAIN H : H[h] = FDiv(Marginal(d, "H", h), T)
                 /\ \A v \in DOMAIN V : V[v] = FDiv(Marginal(d, "V", v), T)
                 /\ SumValues(H) = Rat(1)
                 /\ SumValues(V) = Rat(1)

\* C7: for d of non-zero total weight T over outcomes of length L,
\* marginalizeInterleaved(d) returns H keyed by the even-position sub-outcomes
\* (length ceil(L/2)) and V keyed by the odd-position ones (length floor(L/2)),
\* each weight being the sum of d over the outcomes projecting onto it, over T;
\* H and V each sum to 1, and d is left unchanged.
Thm_C7 ==
    []C7Post /\ [][pending.fn = "traceOverHV" => pending' = pending]_vars

\* two outcomes of length 3 that share their odd-position part
Wit_C7 ==
    /\ Called("traceOverHV")
    /\ ret.exc = "none"
    /\ Cardinality(DOMAIN pending.pDict) = 2
    /\ \A key \in DOMAIN pending.pDict : Len(key) = 3 /\ pending.pDict[key][1] # 0
    /\ Cardinality(DOMAIN ret.val[1]) = 2
    /\ Cardinality(DOMAIN ret.val[2]) = 1

\* --------------------------------------------------------- walk claims
IsWalk == pending.fn \in {"computeWalkOutput", "computeWalkOutputWithMM"}
IsMM == pending.fn = "computeWalkOutputWithMM"
ValidParams ==
    /\ pending.nSteps >= 0
    /\ pending.max_photons >= 0
    /\ IsMM => pending.mm \in 0..MmDen
\* the program of the current walk is complete
Built == pc \in {"run", "query", "convolve", "done"}

\* both walks give the vacuum outcome some weight (the herald can click)
Vacuum == [m \in 1..NModes(pending.nSteps) |-> 0]
HeraldClicks ==
    /\ Vacuum \in DOMAIN pn_para /\ pn_para[Vacuum] # Rat(0)
    /\ Vacuum \in DOMAIN pn_perp /\ pn_perp[Vacuum] # Rat(0)

SameDistribution(a, b) ==
    /\ DOMAIN a = DOMAIN b
    /\ \A key \in DOMAIN a : a[key] = b[key]

\* C3: computeWalkWithMismatch(params, overlap = 1) returns the distribution
\* computeIdealWalk(params) returns (the walk of the same arguments, which is
\* the first walk of the mismatch computation), whenever the herald can click.
CE_C3 ==
    (IsMM /\ ValidParams /\ pending.mm = MmDen /\ pc = "done" /\ HeraldClicks) =>
        /\ ret.exc = "none"
        /\ SameDistribution(ret.val, pn_para)

CE_C6 ==
    (IsWalk /\ ~ValidParams) =>
        /\ engRuns = <<>>
        /\ pc = "done" => ret.exc # "none"

\* C9: every outcome of the distribution computeWalkWithMismatch returns has
\* entry sum and entries at most max_photons, and the weights sum to 1
\* (whenever the herald can click in both walks).
CE_C9 ==
    (IsMM /\ ValidParams /\ pc = "done" /\ HeraldClicks) =>
        /\ ret.exc = "none"
        /\ \A key \in DOMAIN ret.val :
              /\ SumSeq(key) <= pending.max_photons
              /\ \A m \in 1..Len(key) : key[m] <= pending.max_photons
        /\ SumValues(ret.val) = Rat(1)

Coupling(theta, phi, a, b) ==
    [op |-> "BSgate", p1 |-> theta, p2 |-> phi, modes |-> <<a, b>>]

ExpectedOdd(kk) ==
    << Coupling("-pi/4", "0", 2 * kk + 1, 2 * kk + 2),
       Coupling("-pi/4", "0", 2 * kk + 3, 2 * kk + 4),
       Coupling("pi/2", "gamma", 2 * kk + 2, 2 * kk + 4),
       Coupling("pi/4", "0", 2 * kk + 1, 2 * kk + 2),
       Coupling("pi/4", "0", 2 * kk + 3, 2 * kk + 4) >>

ExpectedEven(kk) == << Coupling("pi/2", "gamma", 2 * kk + 2, 2 * kk + 4) >>

\* the couplings of step s for k = kk down to 0
RECURSIVE ExpectedStep(_, _)
ExpectedStep(s, kk) ==
    IF kk < 0 THEN <<>>
    ELSE (IF s % 2 = 1 THEN ExpectedOdd(kk) ELSE ExpectedEven(kk))
         \o ExpectedStep(s, kk - 1)

\* the couplings of the steps s .. n
RECURSIVE ExpectedSteps(_, _)
ExpectedSteps(s, n) ==
    IF s > n THEN <<>> ELSE ExpectedStep(s, s - 1) \o ExpectedSteps(s + 1, n)

ExpectedTerminal(n) ==
    IF n % 2 = 1
    THEN [j \in 1..(n + 1) |-> Coupling("-pi/4", "0", 2 * (j - 1) + 1, 2 * (j - 1) + 2)]
    ELSE <<>>

ExpectedLoss(n) ==
    [j \in 1..(2 * n + 3) |->
        [op |-> "ThermalLossChannel", p1 |-> "eta", p2 |-> "n_noise", modes |-> <<j - 1>>]]

\* C8: the operation sequence is the initialisation stage; for s = 1..nSteps
\* and k = s-1..0 the five couplings of an odd step or the time shift of an
\* even one; if and only if nSteps is odd a -45 degree coupling for each
\* k = 0..nSteps; then one loss+noise operation on each channel 0..2*nSteps+2
\* and nothing after it; nSteps = 0 has no coupling.
Thm_C8 ==
    (IsWalk /\ pending.nSteps >= 0 /\ Built) =>
        LET n == pending.nSteps
        IN /\ Len(prog) >= 3
           /\ prog[1].op = "S2gate" /\ prog[1].modes = <<0, 1>>
           /\ prog[2].op = "LossChannel" /\ prog[2].modes = <<1>>
           /\ prog[3].op = "Coherent" /\ prog[3].modes = <<2>>
           /\ SubSeq(prog, 4, Len(prog))
                 = ExpectedSteps(1, n) \o ExpectedTerminal(n) \o ExpectedLoss(n)
           /\ (n = 0 => \A j \in 1..Len(prog) : prog[j].op # "BSgate")

\* three steps: 3 + 5 + 2 + 15 + 4 + 9 operations
Wit_C8 ==
    /\ IsWalk /\ pending.nSteps = 3 /\ pc = "run"
    /\ Len(prog) = 38
    /\ prog[29].modes = <<7, 8>>

\* C10: at every point of the construction each operation emitted targets
\* channels in 0..2*nSteps+2 only (no register index is out of range), every
\* two-mode coupling acts on two distinct channels, and none but the initial
\* squeezing touches the herald channel 0.
Thm_C10 ==
    (IsWalk /\ pending.nSteps >= 0) =>
        /\ ret.exc # "IndexError"
        /\ \A j \in 1..Len(prog) :
              /\ \A m \in 1..Len(prog[j].modes) :
                    prog[j].modes[m] \in 0..(2 * pending.nSteps + 2)
              /\ Len(prog[j].modes) = 2 =>
                    /\ prog[j].modes[1] # prog[j].modes[2]
                    /\ j > 1 => (prog[j].modes[1] # 0 /\ prog[j].modes[2] # 0)

\* in the middle of the second step of a four-step walk
Wit_C10 ==
    /\ IsWalk /\ pending.nSteps = 4 /\ pc = "walk" /\ stepNumber = 2 /\ k = 0
    /\ prog[Len(prog)].modes = <<4, 6>>

====
